---- MODULE Spec2Model ----
(***************************************************************************)
(* Model of the Pomodoro timer engine (src/src/composables/useTimer.ts,   *)
(* the first, error-handling version, lines 1-332) as it is constructed    *)
(* by PomodoroTimer.vue from the settings of useTimerSettings.             *)
(*                                                                         *)
(* The engine's refs are the variables.  The host's timer table            *)
(* (setInterval / clearInterval) is liveIntervals: the handles whose       *)
(* callback the host will still fire.  Every public operation and the      *)
(* interval callback is one action; the functions they call (pause inside  *)
(* reset, complete and switchMode, createSession inside start) are         *)
(* operators over the record Engine, composed as the code composes them.   *)
(***************************************************************************)
EXTENDS Integers, Sequences, FiniteSets, TLC

VARIABLES
    settings,            \* useTimerSettings: settings.value, the configuration
    storageError,        \* useTimerSettings: ref<StorageError | null>; its type, or "null"
    stored,              \* localStorage: the item under STORAGE_KEY, as JSON text
    backend,             \* localStorage: which of its calls throw
    io,                  \* localStorage: the calls the last settings operation made
    workDuration,        \* useTimer's constructor arguments (minutes, JS numbers)
    shortBreakDuration,
    longBreakDuration,
    currentMode,         \* ref<SessionType>
    timeLeft,            \* ref<number>, seconds
    isRunning,           \* ref<boolean>
    sessionsCompleted,   \* ref<number>
    intervalRef,         \* ref<Timeout | null>; NoHandle is null
    currentSession,      \* ref<PomodoroSession | null>; <<>> is null, <<s>> a session
    timerError,          \* ref<TimerError | null>; its type, or "null"
    liveIntervals,       \* host: handles scheduled by setInterval and not cleared
    durationStale,       \* the computed currentDuration has to be re-evaluated
    mounted,             \* the component owning the engine is mounted
    lastOp,              \* the operation that ran last
    ret,                 \* what it returned: "true", "false", "void", "session", "null"
    returned,            \* the session a createSession() call returned: <<s>>, else <<>>
    history,             \* useTimerStore: the history collaborator's record
    candidate,           \* the value handed to the settings validator, and its edits
    timerState,          \* useTimerStore: its refs other than history
    storedHistory        \* localStorage: the item under 'pomodoro-history'

vars == <<settings, storageError, stored, backend, io, workDuration, shortBreakDuration, longBreakDuration,
          currentMode, timeLeft, isRunning, sessionsCompleted, intervalRef,
          currentSession, timerError, liveIntervals, durationStale,
          mounted, lastOp, ret, returned, history, candidate, timerState,
          storedHistory>>

(***************************************************************************)
(* Bounds of the model.                                                    *)
(***************************************************************************)
\* Work completions counted before the model stops completing work sessions.
MaxSessions == 4
\* The decimal literals JSON.parse reads are those of -MaxLiteral..MaxLiteral.
MaxLiteral == 200
\* Properties of a valid candidate that are changed before it is validated.
MaxEdits == 2
\* Sessions the history holds before the model stops recording.
MaxHistory == 1
\* Work countdowns the timer component is followed through while its
\* settings change.
MaxCountdowns == 1

(***************************************************************************)
(* Program constants.                                                      *)
(***************************************************************************)
SecondsPerMinute == 60
MaxDurationSeconds == 7200
LongBreakEvery == 4
DefaultWorkSeconds == 25 * 60
DefaultShortBreakSeconds == 5 * 60
DefaultLongBreakSeconds == 15 * 60

SessionType == {"work", "shortBreak", "longBreak"}

NoHandle == 0

(***************************************************************************)
(* JavaScript values.  A value carries its runtime type, as typeof and zod *)
(* see it: [t |-> "number", v |-> 25].  The v of an object is the record   *)
(* of its own properties.  A string whose characters the program inspects  *)
(* (the language code) is the sequence of its characters.  A number that   *)
(* is not whole carries, next to its whole part v, its hundredths: 1.01 is *)
(* [t |-> "number", v |-> 1, hundredths |-> 1].  The non-whole numbers of  *)
(* the model are positive and have two decimals; those chosen (1.01, 1.5,  *)
(* 25.25) have the same product with 60 in floating point as exactly.      *)
(***************************************************************************)
num(n) == [t |-> "number", v |-> n]
fraction(whole, h) == [t |-> "number", v |-> whole, hundredths |-> h]
str(s) == [t |-> "string", v |-> s]
bool(b) == [t |-> "boolean", v |-> b]
obj(o) == [t |-> "object", v |-> o]
jsNull == [t |-> "null", v |-> "null"]

\* Number.isInteger(x).
isInteger(x) == "hundredths" \notin DOMAIN x

\* x * k for a whole k.
times(x, k) ==
    IF isInteger(x)
    THEN num(x.v * k)
    ELSE LET product == (x.v * 100 + x.hundredths) * k
         IN  IF product % 100 = 0
             THEN num(product \div 100)
             ELSE fraction(product \div 100, product % 100)

\* x > n, x >= n and x <= n for a whole n.
above(x, n) == x.v > n \/ (x.v = n /\ ~isInteger(x))
atLeast(x, n) == x.v >= n
atMost(x, n) == x.v < n \/ (x.v = n /\ isInteger(x))

\* The number as the engine's refs hold it: a whole number is the integer.
raw(x) == IF isInteger(x) THEN x.v ELSE x

\* The own properties a spread (...value) copies: those of an object, none of null.
ownProperties(value) == IF value.t = "object" THEN value.v ELSE <<>>

\* { ...a, ...b } of two property records: b's properties over a's.
spread(a, b) ==
    [k \in DOMAIN a \cup DOMAIN b |-> IF k \in DOMAIN b THEN b[k] ELSE a[k]]

(***************************************************************************)
(* JSON text.  A text is the literal it spells: its kind ("number",        *)
(* "string", "boolean", "null", "object") and the characters of the        *)
(* literal, a number in decimal; an object's text is the record of its     *)
(* members' texts.  A storage item is such a text, or is absent (getItem   *)
(* returns null), empty, or invalid (no JSON at all, 'invalid json{').     *)
(***************************************************************************)
\* The decimal literal of a number: "25", "1.01", "1.5".
decimal(x) ==
    IF isInteger(x)
    THEN ToString(x.v)
    ELSE ToString(x.v) \o "." \o
         (IF x.hundredths % 10 = 0
          THEN ToString(x.hundredths \div 10)
          ELSE IF x.hundredths < 10
          THEN "0" \o ToString(x.hundredths)
          ELSE ToString(x.hundredths))

\* The number a decimal literal spells.
numberOf(literal) ==
    IF \E n \in -MaxLiteral..MaxLiteral : ToString(n) = literal
    THEN num(CHOOSE n \in -MaxLiteral..MaxLiteral : ToString(n) = literal)
    ELSE CHOOSE x \in { fraction(w, h) : w \in 0..MaxLiteral, h \in 1..99 } :
             decimal(x) = literal

RECURSIVE JSONstringify(_)
JSONstringify(value) ==
    CASE value.t = "number"  -> [kind |-> "number", text |-> decimal(value)]
      [] value.t = "boolean" -> [kind |-> "boolean",
                                 text |-> IF value.v THEN "true" ELSE "false"]
      [] value.t = "string"  -> [kind |-> "string", text |-> value.v]
      [] value.t = "null"    -> [kind |-> "null", text |-> "null"]
      [] value.t = "object"  ->
            [kind |-> "object",
             text |-> [k \in DOMAIN value.v |-> JSONstringify(value.v[k])]]

RECURSIVE JSONparse(_)
JSONparse(item) ==
    CASE item.kind = "number"  -> numberOf(item.text)
      [] item.kind = "boolean" -> bool(item.text = "true")
      [] item.kind = "string"  -> str(item.text)
      [] item.kind = "null"    -> jsNull
      [] item.kind = "object"  ->
            obj([k \in DOMAIN item.text |-> JSONparse(item.text[k])])

\* JSON.parse throws a SyntaxError on the item's text.
SyntaxError(item) == item.kind \in {"invalid", "empty"}

(***************************************************************************)
(* The settings schema (types/index.ts 3-18, 73-80).                       *)
(***************************************************************************)
LowerCase == {"a", "b", "c", "d", "e", "f", "g", "h", "i", "j", "k", "l", "m",
              "n", "o", "p", "q", "r", "s", "t", "u", "v", "w", "x", "y", "z"}
UpperCase == {"A", "B", "C", "D", "E", "F", "G", "H", "I", "J", "K", "L", "M",
              "N", "O", "P", "Q", "R", "S", "T", "U", "V", "W", "X", "Y", "Z"}

\* The regular expression /^[a-z]{2}(-[A-Z]{2})?$/ on a sequence of characters.
LanguagePattern(s) ==
    \/ /\ Len(s) = 2
       /\ s[1] \in LowerCase /\ s[2] \in LowerCase
    \/ /\ Len(s) = 5
       /\ s[1] \in LowerCase /\ s[2] \in LowerCase
       /\ s[3] = "-"
       /\ s[4] \in UpperCase /\ s[5] \in UpperCase

\* Property k of o is present and of the type.
has(o, k, type) == k \in DOMAIN o /\ o[k].t = type

\* A range check that excludes its ends.
numberIn_Exclusive(o, k, lo, hi) == has(o, k, "number") /\ above(o[k], lo) /\ ~atLeast(o[k], hi)

\* z.number().min(lo).max(hi) on property k of o.
numberIn(o, k, lo, hi) == has(o, k, "number") /\ atLeast(o[k], lo) /\ atMost(o[k], hi)

\* z.enum(values) on property k of o.
enumIn(o, k, values) == has(o, k, "string") /\ o[k].v \in values

NotificationKeys == {"visual", "audio", "sound"}

NotificationSchema(data) ==
    /\ data.t = "object"
    /\ has(data.v, "visual", "boolean")
    /\ has(data.v, "audio", "boolean")
    /\ enumIn(data.v, "sound", {"bell", "chime", "ding", "none"})

SettingsKeys ==
    {"workDuration", "shortBreakDuration", "longBreakDuration",
     "sessionsBeforeLongBreak", "autoStartNextSession", "notifications",
     "theme", "language"}

\* PomodoroSettingsSchema accepts the value.
PomodoroSettingsSchema(data) ==
    /\ data.t = "object"
    /\ numberIn(data.v, "workDuration", 1, 120)
    /\ numberIn(data.v, "shortBreakDuration", 1, 60)
    /\ numberIn(data.v, "longBreakDuration", 1, 120)
    /\ numberIn(data.v, "sessionsBeforeLongBreak", 2, 10)
    /\ has(data.v, "autoStartNextSession", "boolean")
    /\ "notifications" \in DOMAIN data.v
    /\ NotificationSchema(data.v.notifications)
    /\ enumIn(data.v, "theme", {"light", "dark", "system"})
    /\ has(data.v, "language", "string")
    /\ LanguagePattern(data.v.language.v)

\* isValidPomodoroSettings: safeParse(data).success.
isValidPomodoroSettings(data) == PomodoroSettingsSchema(data)

\* What validatePomodoroSettings returns for a value the schema accepts (it
\* throws a ZodError for any other): the properties the schema names, the
\* unknown ones stripped, as z.object does.
validatePomodoroSettings(data) ==
    [k \in SettingsKeys |->
        IF k = "notifications"
        THEN obj([j \in NotificationKeys |-> data.v.notifications.v[j]])
        ELSE data.v[k]]

\* new DefaultPomodoroSettings() (types/index.ts 58-71).
DefaultPomodoroSettings ==
    [workDuration            |-> num(25),
     shortBreakDuration      |-> num(5),
     longBreakDuration       |-> num(15),
     sessionsBeforeLongBreak |-> num(4),
     autoStartNextSession    |-> bool(FALSE),
     notifications           |-> obj([visual |-> bool(TRUE), audio |-> bool(TRUE),
                                      sound |-> str("bell")]),
     theme                   |-> str("system"),
     language                |-> str(<<"e", "n">>)]

\* The schema-valid configurations the application is started with in Spec:
\* durations in minutes, the long-break modulus and the auto-start flag.
SettingsChoices ==
    { spread(DefaultPomodoroSettings,
             [workDuration |-> num(1), shortBreakDuration |-> num(1),
              longBreakDuration |-> num(2), sessionsBeforeLongBreak |-> num(4),
              autoStartNextSession |-> bool(FALSE)]),
      spread(DefaultPomodoroSettings,
             [workDuration |-> num(2), shortBreakDuration |-> num(1),
              longBreakDuration |-> num(1), sessionsBeforeLongBreak |-> num(2),
              autoStartNextSession |-> bool(TRUE)]) }

(***************************************************************************)
(* The engine's state as one record, so that the code's sequential         *)
(* composition of functions is composition of operators.                   *)
(***************************************************************************)
Engine ==
    [ currentMode       |-> currentMode,
      timeLeft          |-> timeLeft,
      isRunning         |-> isRunning,
      sessionsCompleted |-> sessionsCompleted,
      intervalRef       |-> intervalRef,
      currentSession    |-> currentSession,
      timerError        |-> timerError,
      liveIntervals     |-> liveIntervals,
      durationStale     |-> durationStale,
      ret               |-> "void",
      returned          |-> <<>> ]

\* validateDuration (useTimer.ts 48-50): positive, at most two hours, whole.
validateDuration(duration) ==
    above(duration, 0) /\ atMost(duration, MaxDurationSeconds) /\ isInteger(duration)

\* The seconds configured for a mode (the switch of getDuration).
configuredSeconds(mode) ==
    CASE mode = "work"       -> times(workDuration, SecondsPerMinute)
      [] mode = "shortBreak" -> times(shortBreakDuration, SecondsPerMinute)
      [] mode = "longBreak"  -> times(longBreakDuration, SecondsPerMinute)

\* A getDuration without validation: whatever was configured.
getDuration_Unvalidated(mode) ==
    raw(configuredSeconds(mode))

\* The value getDuration returns: the configured seconds, or the safe default.
getDuration(mode) ==
    IF validateDuration(configuredSeconds(mode))
    THEN raw(configuredSeconds(mode))
    ELSE CASE mode = "work"       -> DefaultWorkSeconds
           [] mode = "shortBreak" -> DefaultShortBreakSeconds
           [] mode = "longBreak"  -> DefaultLongBreakSeconds

\* The effect of a call of getDuration on the engine: the error it records.
getDurationEffect(e, mode) ==
    IF validateDuration(configuredSeconds(mode))
    THEN e
    ELSE [e EXCEPT !.timerError = "invalid_duration"]

\* Reading currentDuration.value: the computed re-runs getDuration only when
\* its dependency currentMode changed since the last read.
readCurrentDuration(e) ==
    IF e.durationStale
    THEN [getDurationEffect(e, e.currentMode) EXCEPT !.durationStale = FALSE]
    ELSE e

\* Assigning currentMode.value: a changed value invalidates the computed.
setMode(e, mode) ==
    [e EXCEPT !.currentMode = mode,
              !.durationStale = e.durationStale \/ (mode # e.currentMode)]

\* The handle setInterval returns: one the host has not in use and the engine
\* does not still hold.
newHandle(e) ==
    CHOOSE h \in 1..(Cardinality(e.liveIntervals) + 2) :
        h \notin e.liveIntervals /\ h # e.intervalRef

\* A cancellation that only lowers the flag and leaves the interval scheduled.
stopTicking_FlagOnly(e) ==
    [e EXCEPT !.isRunning = FALSE]

\* pause, lines 186-190: the flag goes off and the interval is cleared.
stopTicking(e) ==
    LET stopped == [e EXCEPT !.isRunning = FALSE]
    IN  IF stopped.intervalRef # NoHandle
        THEN [stopped EXCEPT
                !.liveIntervals = stopped.liveIntervals \ {stopped.intervalRef},
                !.intervalRef = NoHandle]
        ELSE stopped

\* The session with interrupted set and endTime stamped with the present
\* instant (useTimer.ts 194-195 and 305-306).
interruptedSession(session) ==
    [session EXCEPT !.interrupted = TRUE, !.endTime = "stopped"]

\* pause, lines 192-196: a current, uncompleted session is marked interrupted.
markInterrupted(e) ==
    IF e.currentSession # <<>> /\ ~e.currentSession[1].completed
    THEN [e EXCEPT !.currentSession = <<interruptedSession(e.currentSession[1])>>]
    ELSE e

\* A pause that leaves the session alone.
pause_NoSessionMarking(e) ==
    [stopTicking(e) EXCEPT !.ret = "true"]

\* A pause that reports failure when the engine is not running.
pause_RefusesWhenIdle(e) ==
    IF e.isRunning
    THEN [markInterrupted(stopTicking(e)) EXCEPT !.ret = "true"]
    ELSE [e EXCEPT !.ret = "false"]

\* pause (useTimer.ts 184-203).
pause(e) ==
    [markInterrupted(stopTicking(e)) EXCEPT !.ret = "true"]

\* The session createSession builds (useTimer.ts 266-274).  endTime is written
\* with the same instant as startTime: "created"; a later stamp is "stopped".
\* The id is an opaque string no code of the engine reads.
newSession(e) ==
    [ type        |-> e.currentMode,
      duration    |-> getDuration(e.currentMode),
      endTime     |-> "created",
      completed   |-> FALSE,
      interrupted |-> FALSE ]

\* A createSession that makes the session it builds the current one.
createSession_StoresSession(e, idFails) ==
    IF idFails
    THEN [e EXCEPT !.timerError = "session_creation_failed", !.ret = "null"]
    ELSE [readCurrentDuration(e) EXCEPT !.ret = "session",
                                        !.returned = <<newSession(e)>>,
                                        !.currentSession = <<newSession(e)>>]

\* createSession (useTimer.ts 255-284): the engine after the call; the session
\* it returns is newSession(e), or null when idFails (identifier generation
\* throws before currentDuration is read).
createSession(e, idFails) ==
    IF idFails
    THEN [e EXCEPT !.timerError = "session_creation_failed", !.ret = "null"]
    ELSE [readCurrentDuration(e) EXCEPT !.ret = "session", !.returned = <<newSession(e)>>]

\* start, lines 151-167 and the catch of 168-176: the path of an engine that
\* is not running.  idFails: identifier generation throws inside
\* createSession; scheduleThrows: setInterval throws.
startIdle(e, idFails, scheduleThrows) ==
    LET cleared == [e EXCEPT !.timerError = "null"]
        withSession ==
            IF cleared.currentSession = <<>>
            THEN LET made == createSession(cleared, idFails)
                 IN  [made EXCEPT !.currentSession = made.returned, !.returned = <<>>]
            ELSE cleared
        running == [withSession EXCEPT !.isRunning = TRUE]
    IN  IF scheduleThrows
        THEN [running EXCEPT !.timerError = "timer_conflict", !.ret = "false"]
        ELSE [running EXCEPT !.intervalRef = newHandle(running),
                             !.liveIntervals = running.liveIntervals \cup {newHandle(running)},
                             !.ret = "true"]

\* A start without the guard against a running engine.
start_NoConflictGuard(e, idFails, scheduleThrows) ==
    startIdle(e, idFails, scheduleThrows)

\* start (useTimer.ts 141-177).
start(e, idFails, scheduleThrows) ==
    IF e.isRunning
    THEN [e EXCEPT !.timerError = "timer_conflict", !.ret = "false"]
    ELSE startIdle(e, idFails, scheduleThrows)

\* A switchMode that starts the countdown when the settings ask for auto-start.
switchMode_AutoStart(e, mode) ==
    LET switched == [getDurationEffect(setMode(pause(e), mode), mode)
                        EXCEPT !.timeLeft = getDuration(mode), !.ret = "void"]
    IN  IF settings.autoStartNextSession.v
        THEN [start(switched, FALSE, FALSE) EXCEPT !.ret = "void"]
        ELSE switched

\* switchMode (useTimer.ts 244-248).
switchMode(e, mode) ==
    LET paused   == pause(e)
        switched == setMode(paused, mode)
        looked   == getDurationEffect(switched, mode)
    IN  [looked EXCEPT !.timeLeft = getDuration(mode), !.ret = "void"]

\* A complete that chooses the break from the count before incrementing it.
complete_ModBeforeIncrement(e) ==
    LET paused == pause(e)
    IN  IF paused.currentMode = "work"
        THEN switchMode([paused EXCEPT !.sessionsCompleted = paused.sessionsCompleted + 1],
                        IF paused.sessionsCompleted % LongBreakEvery = 0
                        THEN "longBreak" ELSE "shortBreak")
        ELSE switchMode(paused, "work")

\* A complete that counts every countdown, breaks included.
complete_CountsBreaks(e) ==
    LET counted == [pause(e) EXCEPT !.sessionsCompleted = e.sessionsCompleted + 1]
    IN  IF counted.currentMode = "work"
        THEN switchMode(counted, IF counted.sessionsCompleted % LongBreakEvery = 0
                                 THEN "longBreak" ELSE "shortBreak")
        ELSE switchMode(counted, "work")

\* complete (useTimer.ts 227-237).
complete(e) ==
    LET paused == pause(e)
    IN  IF paused.currentMode = "work"
        THEN LET counted == [paused EXCEPT !.sessionsCompleted = paused.sessionsCompleted + 1]
                 nextMode == IF counted.sessionsCompleted % LongBreakEvery = 0
                             THEN "longBreak" ELSE "shortBreak"
             IN  switchMode(counted, nextMode)
        ELSE switchMode(paused, "work")

\* A reset that also forgets the work sessions counted so far.
reset_ClearsCounter(e) ==
    LET paused == pause(e)
        read   == readCurrentDuration(paused)
    IN  [read EXCEPT !.timeLeft = getDuration(read.currentMode),
                     !.currentSession = <<>>,
                     !.timerError = "null",
                     !.sessionsCompleted = 0,
                     !.ret = "true"]

\* A reset that only pauses and restores the time.
reset_KeepsSession(e) ==
    [readCurrentDuration(pause(e)) EXCEPT !.timeLeft = getDuration(e.currentMode),
                                          !.ret = "true"]

\* reset (useTimer.ts 210-221).
reset(e) ==
    LET paused == pause(e)
        read   == readCurrentDuration(paused)
    IN  [read EXCEPT !.timeLeft = getDuration(read.currentMode),
                     !.currentSession = <<>>,
                     !.timerError = "null",
                     !.ret = "true"]

\* An interval callback that completes one tick late, below zero.
tick_CompletesLate(e) ==
    LET dec == [e EXCEPT !.timeLeft = e.timeLeft - 1]
    IN  IF dec.timeLeft < 0 THEN complete(dec) ELSE [dec EXCEPT !.ret = "void"]

\* The interval callback (useTimer.ts 159-165).
tick(e) ==
    LET dec == [e EXCEPT !.timeLeft = e.timeLeft - 1]
    IN  IF dec.timeLeft <= 0 THEN complete(dec) ELSE [dec EXCEPT !.ret = "void"]

\* An onUnmounted hook that only clears the interval.
unmount_ClearsIntervalOnly(e) ==
    IF e.intervalRef # NoHandle
    THEN [e EXCEPT !.liveIntervals = e.liveIntervals \ {e.intervalRef}]
    ELSE e

\* The onUnmounted hook (useTimer.ts 298-311): clearInterval without touching
\* intervalRef or isRunning, then the session of a running engine is marked.
unmount(e) ==
    LET cleared == IF e.intervalRef # NoHandle
                   THEN [e EXCEPT !.liveIntervals = e.liveIntervals \ {e.intervalRef}]
                   ELSE e
    IN  IF cleared.currentSession # <<>> /\ cleared.isRunning
        THEN [cleared EXCEPT !.currentSession =
                 <<interruptedSession(cleared.currentSession[1])>>]
        ELSE cleared

(***************************************************************************)
(* The state machine.                                                      *)
(***************************************************************************)
\* The engine's refs take the values of record e; op ran and returned e.ret.
Becomes(e, op) ==
    /\ currentMode' = e.currentMode
    /\ timeLeft' = e.timeLeft
    /\ isRunning' = e.isRunning
    /\ sessionsCompleted' = e.sessionsCompleted
    /\ intervalRef' = e.intervalRef
    /\ currentSession' = e.currentSession
    /\ timerError' = e.timerError
    /\ liveIntervals' = e.liveIntervals
    /\ durationStale' = e.durationStale
    /\ lastOp' = op
    /\ ret' = e.ret
    /\ returned' = e.returned
    /\ UNCHANGED <<settings, workDuration, shortBreakDuration, longBreakDuration>>
    /\ UNCHANGED <<history, storageError, stored, backend, io, candidate,
                    timerState, storedHistory>>

\* The history of a fresh useTimerStore (stores/timer.ts 17-25).
EmptyHistory ==
    [ sessions |-> <<>>,
      stats    |-> [totalSessions |-> 0, completedSessions |-> 0,
                    totalWorkTime |-> 0, streakDays |-> 0] ]

\* The other refs of a fresh useTimerStore (stores/timer.ts 11-16).
FreshTimerState ==
    [ currentSession     |-> <<>>,
      isRunning          |-> FALSE,
      isPaused           |-> FALSE,
      remainingTime      |-> 0,
      currentSessionType |-> "work",
      sessionsCompleted  |-> 0 ]

\* No item is stored under 'pomodoro-history': getItem returns null.
NoStoredHistory == [kind |-> "absent", text |-> ""]

\* useTimerStore() on a storage without a history item (stores/timer.ts
\* 10-25, 144); the history itself is set with the engine's refs below.
TimerStoreConstructed ==
    /\ timerState = FreshTimerState
    /\ storedHistory = NoStoredHistory

\* A construction that starts every engine at the default 25 minutes.
EngineConstructed_DefaultTimeLeft ==
    /\ currentMode = "work"
    /\ timeLeft = DefaultWorkSeconds
    /\ isRunning = FALSE
    /\ sessionsCompleted = 0
    /\ intervalRef = NoHandle
    /\ currentSession = <<>>
    /\ timerError = "null"
    /\ liveIntervals = {}
    /\ durationStale = TRUE
    /\ mounted = TRUE
    /\ lastOp = "init"
    /\ ret = "void"
    /\ returned = <<>>
    /\ history = EmptyHistory

\* The refs right after useTimer(workDuration, shortBreakDuration,
\* longBreakDuration) (useTimer.ts 28-41).
EngineConstructed ==
    /\ currentMode = "work"
    /\ timeLeft = raw(times(workDuration, SecondsPerMinute))
    /\ isRunning = FALSE
    /\ sessionsCompleted = 0
    /\ intervalRef = NoHandle
    /\ currentSession = <<>>
    /\ timerError = "null"
    /\ liveIntervals = {}
    /\ durationStale = TRUE
    /\ mounted = TRUE
    /\ lastOp = "init"
    /\ ret = "void"
    /\ returned = <<>>
    /\ history = EmptyHistory

\* useTimer.ts 23-41, called by PomodoroTimer.vue 63-81 with the three
\* durations of the settings: the engine right after construction.
Constructed ==
    /\ workDuration = settings.workDuration
    /\ shortBreakDuration = settings.shortBreakDuration
    /\ longBreakDuration = settings.longBreakDuration
    /\ EngineConstructed

\* The calls of a loadSettings() that found the storage working: the probe's
\* setItem and removeItem and one getItem (useTimerSettings.ts 17-26, 42).
LoadTraffic == [probeWrites |-> 1, probeDeletes |-> 1, reads |-> 1, writes |-> 0]

\* No value has been handed to the settings validator.
NoCandidate == [value |-> jsNull, edits |-> 0]

\* useTimerSettings() has loaded the settings from the item an earlier
\* saveSettings() wrote (useTimerSettings.ts 41-48, 150).
StoreLoaded ==
    /\ storageError = "null"
    /\ stored = JSONstringify(obj(settings))
    /\ backend = "working"
    /\ io = LoadTraffic

Init ==
    /\ settings \in SettingsChoices
    /\ StoreLoaded
    /\ candidate = NoCandidate
    /\ TimerStoreConstructed
    /\ Constructed

Start ==
    /\ mounted
    /\ \E idFails \in BOOLEAN, scheduleThrows \in BOOLEAN :
          Becomes(start(Engine, idFails, scheduleThrows), "start")
    /\ UNCHANGED mounted

Pause ==
    /\ mounted
    /\ Becomes(pause(Engine), "pause")
    /\ UNCHANGED mounted

Reset ==
    /\ mounted
    /\ Becomes(reset(Engine), "reset")
    /\ UNCHANGED mounted

SwitchModeTo(mode) ==
    /\ mounted
    /\ Becomes(switchMode(Engine, mode), "switchMode")
    /\ UNCHANGED mounted

SwitchMode == \E mode \in SessionType : SwitchModeTo(mode)

\* The host fires the callback of a live interval.  A tick that would count a
\* work session beyond MaxSessions is outside the model.
Tick ==
    /\ mounted
    /\ \E h \in liveIntervals :
          /\ ~(timeLeft - 1 <= 0 /\ currentMode = "work" /\ sessionsCompleted >= MaxSessions)
          /\ Becomes(tick(Engine), "tick")
    /\ UNCHANGED mounted

\* The template reads progress, which reads currentDuration (PomodoroTimer.vue 19).
Render ==
    /\ mounted
    /\ Becomes(readCurrentDuration(Engine), "render")
    /\ UNCHANGED mounted

ClearTimerError ==
    /\ mounted
    /\ Becomes([Engine EXCEPT !.timerError = "null"], "clearTimerError")
    /\ UNCHANGED mounted

\* The host unmounts the component: no intent reaches the engine afterwards.
Unmount ==
    /\ mounted
    /\ Becomes(unmount(Engine), "unmount")
    /\ mounted' = FALSE

Next ==
    \/ Start
    \/ Pause
    \/ Reset
    \/ SwitchMode
    \/ Tick
    \/ Render
    \/ ClearTimerError
    \/ Unmount

Spec == Init /\ [][Next]_vars

(***************************************************************************)
(* The scenario of a user who lets every countdown run out: the engine is  *)
(* constructed from the default settings (25, 5, 15 minutes), started      *)
(* whenever it is idle, and never paused or reset; a break may be skipped  *)
(* by selecting the work mode.                                             *)
(***************************************************************************)
InitDefault ==
    /\ settings = DefaultPomodoroSettings
    /\ StoreLoaded
    /\ candidate = NoCandidate
    /\ TimerStoreConstructed
    /\ Constructed

ScenarioStart ==
    /\ mounted
    /\ ~isRunning
    /\ Becomes(start(Engine, FALSE, FALSE), "start")
    /\ UNCHANGED mounted

ScenarioSkipBreak ==
    /\ currentMode # "work"
    /\ SwitchModeTo("work")

NextScenario ==
    \/ ScenarioStart
    \/ Tick
    \/ ScenarioSkipBreak

SpecScenario == InitDefault /\ [][NextScenario]_vars

(***************************************************************************)
(* Properties.                                                             *)
(***************************************************************************)
\* A periodic tick is scheduled: the engine holds a handle the host will fire.
TickScheduled == intervalRef # NoHandle /\ intervalRef \in liveIntervals

\* The step is the interval callback whose decrement reaches zero.
Completes == lastOp' = "tick" /\ timeLeft - 1 <= 0

\* C1: while the component is mounted, isRunning is true if and only if a
\* periodic tick is scheduled (also after a start() whose scheduling threw).
C1_RunningIffTickScheduled ==
    mounted => (isRunning <=> TickScheduled)

\* C2: start() while isRunning returns false, sets timer_conflict and leaves
\* the session, the remaining time and the single scheduled tick as they
\* were: no second session and no second interval.
C2_StartWhileRunning ==
    [][ (isRunning /\ lastOp' = "start") =>
          /\ ret' = "false"
          /\ timerError' = "timer_conflict"
          /\ UNCHANGED <<currentSession, timeLeft, liveIntervals, intervalRef,
                         isRunning, currentMode, sessionsCompleted>>
          /\ Cardinality(liveIntervals') <= 1 ]_vars

\* C2 witness: a start() was refused while a tick was live and a session current.
C2_Witness ==
    /\ lastOp = "start" /\ ret = "false" /\ timerError = "timer_conflict"
    /\ isRunning /\ TickScheduled /\ currentSession # <<>>

\* C3: a completed work countdown increments the counter and leads to
\* longBreak exactly when the incremented counter is a multiple of the
\* configured sessionsBeforeLongBreak, and to shortBreak otherwise.
C3_LongBreakEveryConfiguredN ==
    [][ (Completes /\ currentMode = "work") =>
          /\ sessionsCompleted' = sessionsCompleted + 1
          /\ currentMode' = IF sessionsCompleted' % settings.sessionsBeforeLongBreak.v = 0
                            THEN "longBreak" ELSE "shortBreak" ]_vars

\* C4: with the defaults (25, 5, 15) and a fresh engine whose work countdowns
\* all run to zero, the 1st, 2nd and 3rd work completion enter shortBreak, the
\* 4th enters longBreak, and the counter is the number of the completion.
C4_DefaultCycle ==
    [][ (Completes /\ currentMode = "work" /\ sessionsCompleted < 4) =>
          /\ sessionsCompleted' = sessionsCompleted + 1
          /\ currentMode' = IF sessionsCompleted' = 4 THEN "longBreak" ELSE "shortBreak"
          /\ timeLeft' = (IF sessionsCompleted' = 4 THEN 15 ELSE 5) * 60 ]_vars

\* C4 witness: the fourth work completion has entered longBreak.
C4_Witness ==
    /\ settings = DefaultPomodoroSettings
    /\ lastOp = "tick" /\ sessionsCompleted = 4
    /\ currentMode = "longBreak" /\ timeLeft = 900

\* C5: a session that was never interrupted and whose countdown reaches zero
\* by ticking ends completed and not interrupted.
C5_NaturalCompletionFlags ==
    [][ (Completes /\ currentSession # <<>> /\ ~currentSession[1].interrupted
           /\ currentSession' # <<>>) =>
          (currentSession'[1].completed /\ ~currentSession'[1].interrupted) ]_vars

\* C6: pause() returns true, stops the engine and cancels the tick; a current,
\* uncompleted session becomes interrupted with endTime stamped and completed
\* still false; without a current session no session is modified.
C6_PauseMarksSession ==
    [][ lastOp' = "pause" =>
          /\ ret' = "true"
          /\ ~isRunning' /\ intervalRef' = NoHandle /\ liveIntervals' = {}
          /\ IF currentSession # <<>> /\ ~currentSession[1].completed
             THEN /\ currentSession' # <<>>
                  /\ currentSession'[1].interrupted
                  /\ currentSession'[1].endTime = "stopped"
                  /\ ~currentSession'[1].completed
                  /\ currentSession'[1].type = currentSession[1].type
                  /\ currentSession'[1].duration = currentSession[1].duration
             ELSE currentSession' = currentSession ]_vars

\* C6 witness: pause() has interrupted the session of a countdown under way.
C6_Witness ==
    /\ lastOp = "pause" /\ ret = "true" /\ ~isRunning /\ liveIntervals = {}
    /\ currentSession # <<>>
    /\ currentSession[1].interrupted /\ currentSession[1].endTime = "stopped"
    /\ ~currentSession[1].completed

\* C7: the completion of a countdown leaves no current session.
C7_CompletionClearsSession ==
    [][ Completes => currentSession' = <<>> ]_vars

\* C8: reset() returns true and leaves the engine stopped with no tick, the
\* full duration of the current mode, no session and no error; the mode and
\* the counter keep their values.
C8_Reset ==
    [][ lastOp' = "reset" =>
          /\ ret' = "true"
          /\ ~isRunning' /\ intervalRef' = NoHandle /\ liveIntervals' = {}
          /\ timeLeft' = getDuration(currentMode)
          /\ currentSession' = <<>>
          /\ timerError' = "null"
          /\ UNCHANGED <<currentMode, sessionsCompleted>> ]_vars

\* C8 witness: reset() has acted in a break that a completion had entered.
C8_Witness ==
    /\ lastOp = "reset" /\ ret = "true" /\ ~isRunning
    /\ currentMode = "shortBreak" /\ sessionsCompleted = 1
    /\ timeLeft = getDuration("shortBreak") /\ currentSession = <<>>

C10_SwitchModeStops ==
    [][ /\ \A m \in SessionType :
             (lastOp' = "switchMode" /\ SwitchModeTo(m)) =>
                /\ currentMode' = m
                /\ timeLeft' = configuredSeconds(m).v
                /\ ~isRunning' /\ intervalRef' = NoHandle /\ liveIntervals' = {}
        /\ Completes =>
                /\ timeLeft' = configuredSeconds(currentMode').v
                /\ ~isRunning' /\ intervalRef' = NoHandle /\ liveIntervals' = {} ]_vars

\* C10 witness: with autoStartNextSession set, an engine that had a work
\* session was switched to longBreak and stands still at its full duration.
C10_Witness ==
    /\ settings.autoStartNextSession.v
    /\ lastOp = "switchMode" /\ currentMode = "longBreak"
    /\ timeLeft = longBreakDuration.v * SecondsPerMinute
    /\ ~isRunning /\ liveIntervals = {}
    /\ currentSession # <<>> /\ currentSession[1].type = "work"

\* C11: the completion of a shortBreak or longBreak countdown enters work with
\* the work duration and leaves the counter of work sessions as it was.
C11_BreakCompletionEntersWork ==
    [][ (Completes /\ currentMode \in {"shortBreak", "longBreak"}) =>
          /\ currentMode' = "work"
          /\ timeLeft' = workDuration.v * SecondsPerMinute
          /\ ~isRunning'
          /\ UNCHANGED sessionsCompleted ]_vars

\* C11 witness: a tick has left the engine in work mode at the full work
\* duration, which only the completion of a break does.
C11_Witness ==
    /\ lastOp = "tick" /\ currentMode = "work"
    /\ timeLeft = workDuration.v * SecondsPerMinute
    /\ ~isRunning /\ sessionsCompleted = 1

(***************************************************************************)
(* The engine used directly, as the unit tests use it: constructed with    *)
(* arbitrary durations, valid or not, and driven through its whole public  *)
(* interface.  Of the interval callback only the zero-crossing tick is     *)
(* followed; the countdown itself is the subject of Spec.                  *)
(***************************************************************************)
\* Constructor arguments: the tests' useTimer(-5, 0, 150) and useTimer(25, 5, 15),
\* and the edges of validateDuration's range (120 min = 7200 s, 121 min above it).
CtorChoices ==
    { <<-5, 0, 150>>, <<25, 5, 15>>, <<120, 1, 121>>, <<0, 60, 1>>, <<1, -1, 120>>,
      <<1, 1, 1>>, <<120, 60, 120>> }

InitCtor ==
    /\ settings = DefaultPomodoroSettings
    /\ StoreLoaded
    /\ candidate = NoCandidate
    /\ TimerStoreConstructed
    /\ \E c \in CtorChoices :
          /\ workDuration = num(c[1])
          /\ shortBreakDuration = num(c[2])
          /\ longBreakDuration = num(c[3])
    /\ EngineConstructed

CreateSessionWith(idFails) ==
    /\ mounted
    /\ Becomes(createSession(Engine, idFails), "createSession")
    /\ UNCHANGED mounted

CreateSession == \E idFails \in BOOLEAN : CreateSessionWith(idFails)

CompletingTick ==
    /\ timeLeft - 1 <= 0
    /\ Tick

NextCtor ==
    \/ Start
    \/ Pause
    \/ Reset
    \/ SwitchMode
    \/ CompletingTick
    \/ Render
    \/ ClearTimerError
    \/ CreateSession

SpecCtor == InitCtor /\ [][NextCtor]_vars

\* C12: whatever durations the engine was constructed with, the remaining
\* time lies between zero and the duration of the current mode.
C12_TimeLeftWithinDuration ==
    0 <= timeLeft /\ timeLeft <= getDuration(currentMode)

\* The seconds the claim expects the engine to use for a mode configured with
\* `minutes`: minutes * 60 when that is in 1..7200, else the mode's default.
ExpectedSeconds(mode, minutes) ==
    IF minutes * 60 >= 1 /\ minutes * 60 <= 7200
    THEN minutes * 60
    ELSE CASE mode = "work" -> 1500 [] mode = "shortBreak" -> 300 [] mode = "longBreak" -> 900

ConfiguredMinutes(mode) ==
    CASE mode = "work" -> workDuration.v
      [] mode = "shortBreak" -> shortBreakDuration.v
      [] mode = "longBreak" -> longBreakDuration.v

InvalidMinutes(minutes) == minutes * 60 < 1 \/ minutes * 60 > 7200

C14_CreateSession ==
    [][ \A idFails \in BOOLEAN :
          (lastOp' = "createSession" /\ CreateSessionWith(idFails)) =>
             /\ UNCHANGED <<isRunning, timeLeft, currentMode, currentSession>>
             /\ IF idFails
                THEN /\ ret' = "null" /\ returned' = <<>>
                     /\ timerError' = "session_creation_failed"
                ELSE /\ ret' = "session"
                     /\ returned' = << [ type        |-> currentMode,
                                         duration    |-> getDuration(currentMode),
                                         endTime     |-> "created",
                                         completed   |-> FALSE,
                                         interrupted |-> FALSE ] >>
                     /\ timerError' # "session_creation_failed"
                           \/ timerError = "session_creation_failed" ]_vars

\* C14 witness: createSession() called in shortBreak mode while the engine ran
\* with a work session current returned a shortBreak session.
C14_Witness ==
    /\ lastOp = "createSession" /\ ret = "session"
    /\ returned # <<>> /\ returned[1].type = "shortBreak"
    /\ ~returned[1].completed /\ ~returned[1].interrupted
    /\ isRunning /\ currentSession # <<>> /\ currentSession[1].type = "work"

\* C15: teardown leaves no interval scheduled; when the engine was running it
\* leaves the current session as pause() would have left it, interrupted with
\* endTime stamped; when the engine was not running it leaves the session as
\* it was.
C15_TeardownInterrupts ==
    [][ lastOp' = "unmount" =>
          /\ liveIntervals' = {}
          /\ IF isRunning
             THEN /\ currentSession' = pause(Engine).currentSession
                  /\ currentSession # <<>> =>
                        /\ currentSession'[1].interrupted
                        /\ currentSession'[1].endTime = "stopped"
             ELSE currentSession' = currentSession ]_vars

\* C15 witness: the component was unmounted during a countdown whose session
\* had not been interrupted before; the session is marked and no tick is left.
C15_Witness ==
    /\ lastOp = "unmount" /\ ~mounted /\ isRunning /\ liveIntervals = {}
    /\ 0 < timeLeft /\ timeLeft < getDuration(currentMode)
    /\ currentSession # <<>> /\ currentSession[1].interrupted
    /\ currentSession[1].endTime = "stopped"

\* C16: the engine drops its reference to a session (currentSession becomes
\* absent) only after the session was handed to the history collaborator, and
\* a session the zero-crossing tick finishes is in the history after that tick.
C16_SessionsReachHistory ==
    [][ /\ (currentSession # <<>> /\ currentSession' = <<>>) =>
              currentSession[1] \in { history'.sessions[i] : i \in 1..Len(history'.sessions) }
        /\ (Completes /\ currentSession # <<>>) =>
              Len(history'.sessions) = Len(history.sessions) + 1 ]_vars

(***************************************************************************)
(* The settings store (src/src/composables/useTimerSettings.ts).  Its refs *)
(* and the storage it uses are one record, so that the code's sequential   *)
(* composition (saveSettings inside loadSettings, updateSettings and       *)
(* resetSettings) is function composition; ret is what the call returned.  *)
(* io counts the storage calls of one public operation, the calls that     *)
(* throw included.                                                         *)
(***************************************************************************)
NoTraffic == [probeWrites |-> 0, probeDeletes |-> 0, reads |-> 0, writes |-> 0]

\* The host.  "server": import.meta.client is false.  On the client, which
\* localStorage calls throw: none ("working"), every setItem with an error
\* that is no QuotaExceededError ("unavailable"), every setItem with a
\* QuotaExceededError, the storage having no room left ("full"), the setItem
\* of the settings with a QuotaExceededError ("quotaExceeded") or with
\* another error ("writeFails"), getItem ("readFails").
Backends ==
    {"working", "unavailable", "full", "quotaExceeded", "writeFails", "readFails",
     "server"}

Store ==
    [settings     |-> settings,
     storageError |-> storageError,
     stored       |-> stored,
     backend      |-> backend,
     io           |-> NoTraffic,
     ret          |-> "void"]

\* isStorageAvailable (useTimerSettings.ts 17-26): ret is its result.
isStorageAvailable(st) ==
    IF st.backend \in {"unavailable", "full"}
    THEN [st EXCEPT !.io.probeWrites = @ + 1, !.ret = "false"]
    ELSE [st EXCEPT !.io.probeWrites = @ + 1, !.io.probeDeletes = @ + 1,
                    !.ret = "true"]

\* A saveSettings that tries the setItem a second time when it throws.
saveSettings_RetriesWrite(st) ==
    IF st.backend = "server"
    THEN [st EXCEPT !.ret = "false"]
    ELSE
    LET probed == isStorageAvailable([st EXCEPT !.storageError = "null"])
        tried  == [probed EXCEPT !.io.writes = @ + 1]
        again  == [tried EXCEPT !.io.writes = @ + 1]
    IN  IF probed.ret = "false"
        THEN [probed EXCEPT !.storageError = "storage_unavailable", !.ret = "false"]
        ELSE IF ~PomodoroSettingsSchema(obj(probed.settings))
        THEN [probed EXCEPT !.storageError = "invalid_data", !.ret = "false"]
        ELSE IF probed.backend = "quotaExceeded"
        THEN [again EXCEPT !.storageError = "quota_exceeded", !.ret = "false"]
        ELSE IF probed.backend = "writeFails"
        THEN [again EXCEPT !.storageError = "invalid_data", !.ret = "false"]
        ELSE [tried EXCEPT
                !.stored = JSONstringify(obj(validatePomodoroSettings(obj(probed.settings)))),
                !.ret = "true"]

\* saveSettings (useTimerSettings.ts 81-117).
saveSettings(st) ==
    IF st.backend = "server"
    THEN [st EXCEPT !.ret = "false"]
    ELSE
    LET probed == isStorageAvailable([st EXCEPT !.storageError = "null"])
        tried  == [probed EXCEPT !.io.writes = @ + 1]
    IN  IF probed.ret = "false"
        THEN [probed EXCEPT !.storageError = "storage_unavailable", !.ret = "false"]
        ELSE IF ~PomodoroSettingsSchema(obj(probed.settings))
        THEN [probed EXCEPT !.storageError = "invalid_data", !.ret = "false"]
        ELSE IF probed.backend = "quotaExceeded"
        THEN [tried EXCEPT !.storageError = "quota_exceeded", !.ret = "false"]
        ELSE IF probed.backend = "writeFails"
        THEN [tried EXCEPT !.storageError = "invalid_data", !.ret = "false"]
        ELSE [tried EXCEPT
                !.stored = JSONstringify(obj(validatePomodoroSettings(obj(probed.settings)))),
                !.ret = "true"]

\* The catch of loadSettings (useTimerSettings.ts 60-78).
loadFailed(st, type) ==
    [st EXCEPT !.storageError = type,
               !.settings = DefaultPomodoroSettings,
               !.ret = "void"]

\* An adoption that writes back whatever it has adopted.
adoptParsed_AlwaysResaves(st, parsed) ==
    LET merged == obj(spread(DefaultPomodoroSettings, ownProperties(parsed)))
    IN  IF isValidPomodoroSettings(parsed)
        THEN [saveSettings([st EXCEPT !.settings = parsed.v]) EXCEPT !.ret = "void"]
        ELSE IF ~PomodoroSettingsSchema(merged)
        THEN loadFailed(st, "invalid_data")
        ELSE [saveSettings([st EXCEPT !.settings = validatePomodoroSettings(merged)])
                EXCEPT !.ret = "void"]

\* An adoption that repairs the settings in memory only.
adoptParsed_NoResave(st, parsed) ==
    LET merged == obj(spread(DefaultPomodoroSettings, ownProperties(parsed)))
    IN  IF isValidPomodoroSettings(parsed)
        THEN [st EXCEPT !.settings = parsed.v, !.ret = "void"]
        ELSE IF ~PomodoroSettingsSchema(merged)
        THEN loadFailed(st, "invalid_data")
        ELSE [st EXCEPT !.settings = validatePomodoroSettings(merged), !.ret = "void"]

\* An adoption that writes the defaults to the storage when the repair fails.
adoptParsed_SavesDefaultsOnFailure(st, parsed) ==
    LET merged == obj(spread(DefaultPomodoroSettings, ownProperties(parsed)))
    IN  IF isValidPomodoroSettings(parsed)
        THEN [st EXCEPT !.settings = parsed.v, !.ret = "void"]
        ELSE IF ~PomodoroSettingsSchema(merged)
        THEN [saveSettings(loadFailed(st, "invalid_data"))
                EXCEPT !.storageError = "invalid_data", !.ret = "void"]
        ELSE [saveSettings([st EXCEPT !.settings = validatePomodoroSettings(merged)])
                EXCEPT !.ret = "void"]

\* An adoption that takes the merged value without validating it.
adoptParsed_AdoptsUnvalidated(st, parsed) ==
    LET merged == obj(spread(DefaultPomodoroSettings, ownProperties(parsed)))
    IN  IF isValidPomodoroSettings(parsed)
        THEN [st EXCEPT !.settings = parsed.v, !.ret = "void"]
        ELSE [saveSettings([st EXCEPT !.settings = merged.v]) EXCEPT !.ret = "void"]

\* The branch of loadSettings for a parsed value (useTimerSettings.ts 44-58).
adoptParsed(st, parsed) ==
    LET merged == obj(spread(DefaultPomodoroSettings, ownProperties(parsed)))
    IN  IF isValidPomodoroSettings(parsed)
        THEN [st EXCEPT !.settings = parsed.v, !.ret = "void"]
        ELSE IF ~PomodoroSettingsSchema(merged)
        THEN loadFailed(st, "invalid_data")
        ELSE [saveSettings([st EXCEPT !.settings = validatePomodoroSettings(merged)])
                EXCEPT !.ret = "void"]

\* A loadSettings that falls back to the defaults when the probe fails.
loadSettings_DefaultsWhenUnavailable(st) ==
    IF st.backend = "server"
    THEN [st EXCEPT !.ret = "void"]
    ELSE
    LET probed == isStorageAvailable([st EXCEPT !.storageError = "null"])
        read   == [probed EXCEPT !.io.reads = @ + 1, !.ret = "void"]
    IN  IF probed.ret = "false"
        THEN loadFailed(probed, "storage_unavailable")
        ELSE IF read.backend = "readFails"
        THEN loadFailed(read, "invalid_data")
        ELSE IF read.stored.kind \in {"absent", "empty"}
        THEN read
        ELSE IF SyntaxError(read.stored)
        THEN loadFailed(read, "parse_error")
        ELSE adoptParsed(read, JSONparse(read.stored))

\* loadSettings (useTimerSettings.ts 28-79).
loadSettings(st) ==
    IF st.backend = "server"
    THEN [st EXCEPT !.ret = "void"]
    ELSE
    LET probed == isStorageAvailable([st EXCEPT !.storageError = "null"])
        read   == [probed EXCEPT !.io.reads = @ + 1, !.ret = "void"]
    IN  IF probed.ret = "false"
        THEN [probed EXCEPT !.storageError = "storage_unavailable", !.ret = "void"]
        ELSE IF read.backend = "readFails"
        THEN loadFailed(read, "invalid_data")
        ELSE IF read.stored.kind \in {"absent", "empty"}
        THEN read
        ELSE IF SyntaxError(read.stored)
        THEN loadFailed(read, "parse_error")
        ELSE adoptParsed(read, JSONparse(read.stored))

\* An updateSettings that assigns the merged settings before validating them.
updateSettings_AssignsFirst(st, newSettings) ==
    LET merged == spread(st.settings, newSettings)
    IN  IF ~PomodoroSettingsSchema(obj(merged))
        THEN [st EXCEPT !.settings = merged, !.ret = "false"]
        ELSE saveSettings([st EXCEPT !.settings = validatePomodoroSettings(obj(merged))])

\* updateSettings (useTimerSettings.ts 119-130).
updateSettings(st, newSettings) ==
    LET merged == spread(st.settings, newSettings)
    IN  IF ~PomodoroSettingsSchema(obj(merged))
        THEN [st EXCEPT !.ret = "false"]
        ELSE saveSettings([st EXCEPT !.settings = validatePomodoroSettings(obj(merged))])

\* resetSettings (useTimerSettings.ts 132-135).
resetSettings(st) ==
    saveSettings([st EXCEPT !.settings = DefaultPomodoroSettings])

\* clearStorageError (useTimerSettings.ts 137-139).
clearStorageError(st) == [st EXCEPT !.storageError = "null", !.ret = "void"]

(***************************************************************************)
(* The settings store as a state machine: the application has constructed  *)
(* the store, which loads the settings, and the engine from its durations  *)
(* (PomodoroTimer.vue 63-81); then the store's public operations are       *)
(* called in any order while the storage fails and recovers.               *)
(***************************************************************************)
\* The settings of the test 'should load valid settings from localStorage'.
ValidStored ==
    [workDuration            |-> num(30),
     shortBreakDuration      |-> num(10),
     longBreakDuration       |-> num(20),
     sessionsBeforeLongBreak |-> num(4),
     autoStartNextSession    |-> bool(TRUE),
     notifications           |-> obj([visual |-> bool(TRUE), audio |-> bool(FALSE),
                                      sound |-> str("chime")]),
     theme                   |-> str("dark"),
     language                |-> str(<<"j", "a">>)]

\* What the storage holds when the store is constructed: nothing, an empty
\* string, text that is no JSON, the JSON null, valid settings, valid settings
\* with a property the schema does not name, the partial settings and the
\* invalid settings of the tests.
PersistedChoices ==
    { [kind |-> "absent", text |-> ""],
      [kind |-> "empty", text |-> ""],
      [kind |-> "invalid", text |-> "invalid json{"],
      JSONstringify(jsNull),
      JSONstringify(obj(ValidStored)),
      JSONstringify(obj(spread(ValidStored, [unknownField |-> str("x")]))),
      JSONstringify(obj([workDuration |-> num(30),
                         invalidField |-> str("should be ignored")])),
      JSONstringify(obj([workDuration |-> num(-5),
                         shortBreakDuration |-> str("not a number"),
                         theme |-> str("invalid_theme")])) }

\* The arguments of updateSettings: those of the tests.
PartialChoices ==
    { [workDuration |-> num(30)],
      [workDuration |-> num(-10)],
      [workDuration |-> num(200), sessionsBeforeLongBreak |-> num(15),
       language |-> str(<<"i", "n", "v", "a", "l", "i", "d", "-", "c", "o", "d", "e">>)],
      [workDuration |-> num(45), shortBreakDuration |-> num(10),
       theme |-> str("dark"), language |-> str(<<"j", "a">>)] }

\* The engine's variables, which no operation of the settings store touches.
engineRefs ==
    <<workDuration, shortBreakDuration, longBreakDuration, currentMode, timeLeft,
      isRunning, sessionsCompleted, intervalRef, currentSession, timerError,
      liveIntervals, durationStale, mounted, returned, history>>

\* A store whose settings the engine reads live: every operation of the store
\* also hands the engine the durations of the settings it leaves.
StoreBecomes_LiveDurations(st, op) ==
    /\ settings' = st.settings
    /\ storageError' = st.storageError
    /\ stored' = st.stored
    /\ io' = st.io
    /\ lastOp' = op
    /\ ret' = st.ret
    /\ workDuration' = st.settings.workDuration
    /\ shortBreakDuration' = st.settings.shortBreakDuration
    /\ longBreakDuration' = st.settings.longBreakDuration
    /\ UNCHANGED <<backend, currentMode, timeLeft, isRunning, sessionsCompleted,
                    intervalRef, currentSession, timerError, liveIntervals,
                    durationStale, mounted, returned, history, candidate,
                    timerState, storedHistory>>

\* The store's refs and the storage take the values of record st; op ran and
\* returned st.ret.
StoreBecomes(st, op) ==
    /\ settings' = st.settings
    /\ storageError' = st.storageError
    /\ stored' = st.stored
    /\ io' = st.io
    /\ lastOp' = op
    /\ ret' = st.ret
    /\ UNCHANGED <<backend, engineRefs, candidate, timerState, storedHistory>>

\* useTimerSettings() (useTimerSettings.ts 13-15, 150) on any host and any
\* stored item, then useTimer() with the durations it loaded.
InitSettings ==
    /\ backend \in Backends
    /\ \E item \in PersistedChoices :
          LET loaded == loadSettings([settings     |-> DefaultPomodoroSettings,
                                      storageError |-> "null",
                                      stored       |-> item,
                                      backend      |-> backend,
                                      io           |-> NoTraffic,
                                      ret          |-> "void"])
          IN  /\ settings = loaded.settings
              /\ storageError = loaded.storageError
              /\ stored = loaded.stored
              /\ io = loaded.io
    /\ candidate = NoCandidate
    /\ TimerStoreConstructed
    /\ Constructed

LoadSettings == StoreBecomes(loadSettings(Store), "loadSettings")

SaveSettings == StoreBecomes(saveSettings(Store), "saveSettings")

UpdateSettingsWith(newSettings) ==
    StoreBecomes(updateSettings(Store, newSettings), "updateSettings")

UpdateSettings == \E newSettings \in PartialChoices : UpdateSettingsWith(newSettings)

ResetSettings == StoreBecomes(resetSettings(Store), "resetSettings")

ClearStorageError == StoreBecomes(clearStorageError(Store), "clearStorageError")

\* The storage starts or stops failing; a server stays a server.
BackendChanges ==
    /\ backend # "server"
    /\ backend' \in (Backends \ {"server", backend})
    /\ UNCHANGED <<settings, storageError, stored, io, lastOp, ret, engineRefs,
                    candidate, timerState, storedHistory>>

NextSettings ==
    \/ LoadSettings
    \/ SaveSettings
    \/ UpdateSettings
    \/ ResetSettings
    \/ ClearStorageError
    \/ BackendChanges

SpecSettings == InitSettings /\ [][NextSettings]_vars

\* The merge of the call's argument over the settings fails validation.
MergeInvalid(newSettings) == ~PomodoroSettingsSchema(obj(spread(settings, newSettings)))

\* C17: an updateSettings whose merge with the current settings fails
\* validation returns false, leaves settings.value as it was and makes no
\* storage call, so writes nothing.
C17_InvalidUpdateRejected ==
    [][ \A newSettings \in PartialChoices :
          (lastOp' = "updateSettings" /\ UpdateSettingsWith(newSettings)
             /\ MergeInvalid(newSettings)) =>
                /\ ret' = "false"
                /\ settings' = settings
                /\ stored' = stored
                /\ io'.writes = 0 ]_vars

\* C17 witness: an update was refused for its values on a store whose
\* settings are no longer the defaults and whose storage holds them.
C17_Witness ==
    /\ lastOp = "updateSettings" /\ ret = "false" /\ io = NoTraffic
    /\ backend = "working"
    /\ settings # DefaultPomodoroSettings
    /\ stored = JSONstringify(obj(settings))

\* C18: when updateSettings or resetSettings returns false, settings.value is
\* what it was before the call.
C18_FailedOperationNotApplied ==
    [][ ((UpdateSettings \/ ResetSettings) /\ ret' = "false") =>
            settings' = settings ]_vars

\* The last operation ended with a saveSettings that wrote the settings.
Saved == lastOp \in {"saveSettings", "updateSettings", "resetSettings"} /\ ret = "true"

\* C19 as stated: after the settings X were saved on a working storage, a
\* loadSettings leaves settings.value equal to X, storageError null, and
\* writes nothing.
C19_RoundTripIdentity ==
    [][ (Saved /\ backend = "working" /\ LoadSettings) =>
            /\ settings' = settings
            /\ storageError' = "null"
            /\ io'.writes = 0 ]_vars

\* C19 amended: after the settings X were saved on a working storage, a
\* loadSettings leaves settings.value equal to validate(X), which is X without
\* the properties the schema does not name (X itself when it has none),
\* storageError null, and writes nothing.
C19_RoundTripValidated ==
    [][ (Saved /\ backend = "working" /\ LoadSettings) =>
            /\ settings' = validatePomodoroSettings(obj(settings))
            /\ DOMAIN settings = SettingsKeys => settings' = settings
            /\ storageError' = "null"
            /\ stored' = stored
            /\ io'.writes = 0 ]_vars

\* C19 witness: settings that no stored item of the model spells (45 minutes of
\* work, set by an update) have been loaded back from what the update saved.
C19_Witness ==
    /\ lastOp = "loadSettings" /\ backend = "working"
    /\ settings.workDuration = num(45) /\ settings.theme = str("dark")
    /\ storageError = "null"
    /\ io = LoadTraffic
    /\ stored = JSONstringify(obj(settings))

\* The stored item is JSON whose value fails validation as it is and passes
\* once its properties are merged over the defaults.
Repairable ==
    /\ stored.kind \notin {"absent", "empty", "invalid"}
    /\ ~PomodoroSettingsSchema(JSONparse(stored))
    /\ PomodoroSettingsSchema(
          obj(spread(DefaultPomodoroSettings, ownProperties(JSONparse(stored)))))

\* C20: a loadSettings that reads a repairable item adopts the settings that
\* have the item's value for every property of the schema the item has and
\* the default for every other, and no property besides; it attempts one
\* write, and on a working storage the item becomes the text of the adopted
\* settings.
C20_Repair ==
    [][ (LoadSettings /\ Repairable
           /\ backend \in {"working", "quotaExceeded", "writeFails"}) =>
            /\ DOMAIN settings' = SettingsKeys
            /\ \A k \in SettingsKeys :
                  settings'[k] = IF k \in DOMAIN ownProperties(JSONparse(stored))
                                 THEN JSONparse(stored).v[k]
                                 ELSE DefaultPomodoroSettings[k]
            /\ io'.writes = 1
            /\ backend = "working" =>
                  /\ stored' = JSONstringify(obj(settings'))
                  /\ storageError' = "null" ]_vars

\* C20 witness: the partial item { workDuration: 30, invalidField } was loaded
\* after the settings in memory had been reset: 30 minutes of work, the other
\* properties at their defaults, and the storage holds exactly that.
C20_Witness ==
    /\ lastOp = "loadSettings" /\ backend = "working"
    /\ settings = spread(DefaultPomodoroSettings, [workDuration |-> num(30)])
    /\ io = [LoadTraffic EXCEPT !.writes = 1, !.probeWrites = 2, !.probeDeletes = 2]
    /\ stored = JSONstringify(obj(settings))
    /\ storageError = "null"

\* The hosts on which loadSettings gets the stored item: the probe passes and
\* getItem returns.
ReadsThrough == {"working", "quotaExceeded", "writeFails"}

\* The stored item is JSON whose value fails validation also after its
\* properties are merged over the defaults.
Unrepairable ==
    /\ stored.kind \notin {"absent", "empty", "invalid"}
    /\ ~PomodoroSettingsSchema(
          obj(spread(DefaultPomodoroSettings, ownProperties(JSONparse(stored)))))

\* C21: a loadSettings that reads an unrepairable item sets storageError to
\* invalid_data and settings.value to the defaults, and writes nothing: the
\* stored item stays.
C21_UnrepairableFallsBack ==
    [][ (LoadSettings /\ backend \in ReadsThrough /\ Unrepairable) =>
            /\ storageError' = "invalid_data"
            /\ settings' = DefaultPomodoroSettings
            /\ io'.writes = 0
            /\ stored' = stored ]_vars

\* C21 witness: the tests' invalid item { workDuration: -5, shortBreakDuration:
\* 'not a number', theme: 'invalid_theme' } has been read on a working storage.
C21_Witness ==
    /\ lastOp = "loadSettings" /\ backend = "working" /\ Unrepairable
    /\ io = LoadTraffic
    /\ storageError = "invalid_data"
    /\ settings = DefaultPomodoroSettings

\* C22: a loadSettings that reads an item JSON.parse cannot parse sets
\* storageError to parse_error and settings.value to the defaults.
C22_UnparsableFallsBack ==
    [][ (LoadSettings /\ backend \in ReadsThrough /\ SyntaxError(stored)) =>
            /\ storageError' = "parse_error"
            /\ settings' = DefaultPomodoroSettings
            /\ ret' = "void" ]_vars

\* C23: a loadSettings whose availability probe fails sets storageError to
\* storage_unavailable, reads nothing and leaves settings.value as it was.
C23_UnavailableLoad ==
    [][ (LoadSettings /\ backend \in {"unavailable", "full"}) =>
            /\ storageError' = "storage_unavailable"
            /\ io'.reads = 0
            /\ settings' = settings
            /\ stored' = stored ]_vars

\* C23 witness: settings an update has changed in memory are still there after
\* a loadSettings on a storage whose probe fails.
C23_Witness ==
    /\ lastOp = "loadSettings" /\ backend = "unavailable"
    /\ storageError = "storage_unavailable"
    /\ io = [NoTraffic EXCEPT !.probeWrites = 1]
    /\ settings.workDuration = num(45)

\* How the claim classifies a failing saveSettings by the host's signal.
ExpectedSaveError ==
    CASE backend \in {"unavailable", "server"}  -> "storage_unavailable"
      [] backend \in {"full", "quotaExceeded"}  -> "quota_exceeded"
      [] OTHER                                  -> "invalid_data"

\* C24: saveSettings returns true with storageError null, or false with
\* storageError storage_unavailable when the storage cannot be reached,
\* quota_exceeded when the storage rejects the write for its quota, and
\* invalid_data for any other failure.
C24_SaveClassifiesFailure ==
    [][ SaveSettings =>
            \/ ret' = "true" /\ storageError' = "null"
            \/ ret' = "false" /\ storageError' = ExpectedSaveError ]_vars

\* C25: settings.value satisfies the settings schema in every state.
C25_SettingsSchemaValid == PomodoroSettingsSchema(obj(settings))

\* C25 witness: the storage holds an item that fails validation, an update
\* with invalid values has just been refused, and the settings in memory are
\* valid settings other than the defaults.
C25_Witness ==
    /\ lastOp = "updateSettings" /\ ret = "false"
    /\ stored.kind = "object" /\ ~PomodoroSettingsSchema(JSONparse(stored))
    /\ settings # DefaultPomodoroSettings
    /\ PomodoroSettingsSchema(obj(settings))

\* C26 (settings half): when saveSettings, updateSettings or resetSettings
\* returns false, storageError is not null after the call.
C26_FailureSetsError ==
    [][ ((SaveSettings \/ UpdateSettings \/ ResetSettings) /\ ret' = "false") =>
            storageError' # "null" ]_vars

(***************************************************************************)
(* The settings validator as a function (types/index.ts 73-80): a caller   *)
(* builds a candidate, a valid or an invalid value of the tests with up to *)
(* MaxEdits of its properties set or deleted, and hands it to              *)
(* validatePomodoroSettings or to isValidPomodoroSettings.                 *)
(***************************************************************************)
\* The values the candidates start from: the defaults, the valid settings
\* and the invalid durations of the tests, an empty object, null.
BaseCandidates ==
    { obj(DefaultPomodoroSettings),
      obj(ValidStored),
      obj(spread(DefaultPomodoroSettings,
                 [workDuration |-> num(-5), shortBreakDuration |-> num(0),
                  longBreakDuration |-> num(150)])),
      obj(<<>>),
      jsNull }

\* The values an edit gives a property: the ends of the schema's ranges and
\* their neighbours, the members of its enumerations, language codes of every
\* shape, values of another type.
DefaultNotifications == DefaultPomodoroSettings.notifications.v

PropertyChoices(k) ==
    CASE k \in {"workDuration", "shortBreakDuration", "longBreakDuration",
                "sessionsBeforeLongBreak"} ->
            { num(-5), num(0), num(1), num(2), num(10), num(11), num(60), num(61),
              num(120), num(121), str("25") }
      [] k = "autoStartNextSession" -> { bool(TRUE), bool(FALSE), str("true") }
      [] k = "theme" ->
            { str("light"), str("dark"), str("system"), str("invalid_theme"), num(1) }
      [] k = "language" ->
            { str(<<"j", "a">>), str(<<"e", "n", "-", "U", "S">>),
              str(<<"E", "N">>), str(<<"e">>), str(<<"e", "n", "g">>),
              str(<<"e", "n", "-", "u", "s">>), str(<<"e", "n", "_", "U", "S">>),
              str(<<"e", "n", "-", "U", "S", "A">>), num(1) }
      [] k = "notifications" ->
            { obj(spread(DefaultNotifications, [sound |-> str("chime")])),
              obj(spread(DefaultNotifications, [sound |-> str("ding")])),
              obj(spread(DefaultNotifications, [sound |-> str("none")])),
              obj(spread(DefaultNotifications, [sound |-> str("invalid_sound")])),
              obj(spread(DefaultNotifications, [visual |-> str("yes")])),
              obj(spread(DefaultNotifications, [audio |-> num(1)])),
              obj(spread(DefaultNotifications, [volume |-> num(10)])),
              obj([visual |-> bool(TRUE), sound |-> str("bell")]),
              obj([visual |-> bool(TRUE), audio |-> bool(FALSE)]),
              str("bell"), jsNull }
      [] OTHER -> { str("x") }

EditableKeys == SettingsKeys \cup {"unknownField"}

InitValidate ==
    /\ settings = DefaultPomodoroSettings
    /\ StoreLoaded
    /\ TimerStoreConstructed
    /\ Constructed
    /\ \E value \in BaseCandidates : candidate = [value |-> value, edits |-> 0]

\* What the validator and its caller leave alone.
validatorFrame ==
    <<settings, storageError, stored, backend, io, workDuration, shortBreakDuration,
      longBreakDuration, currentMode, timeLeft, isRunning, sessionsCompleted,
      intervalRef, currentSession, timerError, liveIntervals, durationStale,
      mounted, history, timerState, storedHistory>>

\* The caller sets property k of the candidate.
SetProperty ==
    /\ candidate.value.t = "object"
    /\ candidate.edits < MaxEdits
    /\ \E k \in EditableKeys : \E value \in PropertyChoices(k) :
          candidate' = [value |-> obj(spread(candidate.value.v, [j \in {k} |-> value])),
                        edits |-> candidate.edits + 1]
    /\ lastOp' = "edit" /\ ret' = "void" /\ returned' = <<>>
    /\ UNCHANGED validatorFrame

\* The caller deletes a property of the candidate.
DeleteProperty ==
    /\ candidate.value.t = "object"
    /\ candidate.edits < MaxEdits
    /\ \E k \in DOMAIN candidate.value.v :
          candidate' = [value |-> obj([j \in DOMAIN candidate.value.v \ {k} |->
                                          candidate.value.v[j]]),
                        edits |-> candidate.edits + 1]
    /\ lastOp' = "edit" /\ ret' = "void" /\ returned' = <<>>
    /\ UNCHANGED validatorFrame

\* validatePomodoroSettings(candidate): returns the settings or throws.
ValidatePomodoroSettings ==
    /\ lastOp' = "validatePomodoroSettings"
    /\ IF PomodoroSettingsSchema(candidate.value)
       THEN ret' = "settings" /\ returned' = <<validatePomodoroSettings(candidate.value)>>
       ELSE ret' = "throws" /\ returned' = <<>>
    /\ UNCHANGED <<candidate, validatorFrame>>

\* isValidPomodoroSettings(candidate).
IsValidPomodoroSettings ==
    /\ lastOp' = "isValidPomodoroSettings"
    /\ ret' = IF isValidPomodoroSettings(candidate.value) THEN "true" ELSE "false"
    /\ returned' = <<>>
    /\ UNCHANGED <<candidate, validatorFrame>>

NextValidate ==
    \/ SetProperty
    \/ DeleteProperty
    \/ ValidatePomodoroSettings
    \/ IsValidPomodoroSettings

SpecValidate == InitValidate /\ [][NextValidate]_vars

\* What the claim accepts for property k of an object o: the property is
\* there, of the right type and in its range.
Acceptable(o, k) ==
    /\ k \in DOMAIN o
    /\ CASE k \in {"workDuration", "longBreakDuration"} ->
                o[k].t = "number" /\ o[k].v \in 1..120
         [] k = "shortBreakDuration" -> o[k].t = "number" /\ o[k].v \in 1..60
         [] k = "sessionsBeforeLongBreak" -> o[k].t = "number" /\ o[k].v \in 2..10
         [] k = "autoStartNextSession" -> o[k].t = "boolean"
         [] k = "theme" ->
                o[k].t = "string" /\ o[k].v \in {"light", "dark", "system"}
         [] k = "language" ->
                /\ o[k].t = "string"
                /\ o[k].v \in { <<"e", "n">>, <<"j", "a">>, <<"e", "n", "-", "U", "S">> }
         [] k = "notifications" ->
                /\ o[k].t = "object"
                /\ \A j \in {"visual", "audio"} :
                      j \in DOMAIN o[k].v /\ o[k].v[j].t = "boolean"
                /\ "sound" \in DOMAIN o[k].v
                /\ o[k].v.sound.t = "string"
                /\ o[k].v.sound.v \in {"bell", "chime", "ding", "none"}

\* Every property of the schema is acceptable in the candidate.
AllAcceptable ==
    /\ candidate.value.t = "object"
    /\ \A k \in SettingsKeys : Acceptable(candidate.value.v, k)

progress ==
    [numerator   |-> (getDuration(currentMode) - timeLeft) * 100,
     denominator |-> getDuration(currentMode)]

\* The three constructor arguments are durations the claim calls valid.
ValidCtorDurations ==
    \A minutes \in {workDuration, shortBreakDuration, longBreakDuration} :
        minutes.v \in 1..120

\* C28: an engine just constructed with valid durations is in work mode with
\* timeLeft = workDuration * 60, not running, no session completed, progress
\* 0, no current session, no error - also once progress has been read.
C28_FreshEngine ==
    (lastOp = "init" /\ ValidCtorDurations) =>
        /\ currentMode = "work"
        /\ timeLeft = workDuration.v * 60
        /\ ~isRunning
        /\ sessionsCompleted = 0
        /\ progress.numerator = 0 /\ progress.denominator > 0
        /\ currentSession = <<>>
        /\ timerError = "null"
        /\ readCurrentDuration(Engine).timerError = "null"

\* C28 witness: useTimer(120, 60, 120), the longest durations the engine accepts.
C28_Witness ==
    /\ lastOp = "init" /\ ValidCtorDurations
    /\ workDuration = num(120) /\ timeLeft = 7200
    /\ ~isRunning /\ currentSession = <<>> /\ timerError = "null"

(***************************************************************************)
(* The history store (src/src/stores/timer.ts).  Its refs, the history and *)
(* the storage item are one record, so that the code's sequential          *)
(* composition (addSessionToHistory and resetTimer inside stopSession and  *)
(* completeSession) is function composition.  A session is an object: the  *)
(* store keeps the caller's object as the current session and pushes that  *)
(* same object onto history.sessions, so a write to the current session    *)
(* shows in every entry of the history that is the same object.  Objects   *)
(* are told apart by their id.                                             *)
(***************************************************************************)
TimerStore ==
    [ currentSession     |-> timerState.currentSession,
      isRunning          |-> timerState.isRunning,
      isPaused           |-> timerState.isPaused,
      remainingTime      |-> timerState.remainingTime,
      currentSessionType |-> timerState.currentSessionType,
      sessionsCompleted  |-> timerState.sessionsCompleted,
      history            |-> history,
      storedHistory      |-> storedHistory,
      backend            |-> backend ]

\* startSession (stores/timer.ts 36-42).
startSession(s, session) ==
    [s EXCEPT !.currentSession = <<session>>,
              !.isRunning = TRUE,
              !.isPaused = FALSE,
              !.remainingTime = session.duration,
              !.currentSessionType = session.type]

\* pauseSession (stores/timer.ts 44-47).
pauseSession(s) == [s EXCEPT !.isPaused = TRUE, !.isRunning = FALSE]

\* resumeSession (stores/timer.ts 49-52).
resumeSession(s) == [s EXCEPT !.isPaused = FALSE, !.isRunning = TRUE]

\* resetTimer (stores/timer.ts 78-83).
resetTimer(s) ==
    [s EXCEPT !.currentSession = <<>>,
              !.isRunning = FALSE,
              !.isPaused = FALSE,
              !.remainingTime = 0]

\* JSON.stringify(history.value): the text holds each session's properties,
\* not which object it was.
historyText(h) ==
    [ sessions |-> [i \in 1..Len(h.sessions) |->
                       [k \in DOMAIN h.sessions[i] \ {"id"} |-> h.sessions[i][k]]],
      stats    |-> h.stats ]

\* The i-th smallest id that is not among taken.
NthFreeId(taken, i) ==
    CHOOSE id \in 1..(i + Cardinality(taken)) :
        /\ id \notin taken
        /\ Cardinality({j \in 1..id : j \notin taken}) = i

\* JSON.parse of a history text: every session of the text is a new object,
\* none of them one the store refers to already.
parsedHistory(text, taken) ==
    [ sessions |-> [i \in 1..Len(text.sessions) |->
                       spread(text.sessions[i], [id |-> NthFreeId(taken, i)])],
      stats    |-> text.stats ]

\* saveHistoryToStorage (stores/timer.ts 105-113): nothing on the server, and
\* a setItem that throws is caught.  The item is the text of the history as
\* it is at the call.
saveHistoryToStorage(s) ==
    IF s.backend \in {"server", "unavailable", "full"}
    THEN s
    ELSE [s EXCEPT !.storedHistory = [kind |-> "object", text |-> historyText(s.history)]]

\* loadHistoryFromStorage (stores/timer.ts 91-103): the properties of the
\* parsed item over those of the history; nothing on the server, without an
\* item, or when getItem throws.
loadHistoryFromStorage(s) ==
    IF s.backend \in {"server", "readFails"} \/ s.storedHistory.kind = "absent"
    THEN s
    ELSE [s EXCEPT !.history =
              spread(s.history,
                     parsedHistory(s.storedHistory.text,
                                   { s.currentSession[i].id : i \in 1..Len(s.currentSession) }))]

\* An addSessionToHistory that pushes the session without counting it.
addSessionToHistory_Uncounted(s, session) ==
    saveHistoryToStorage([s EXCEPT !.history.sessions = Append(@, session)])

\* addSessionToHistory (stores/timer.ts 85-89).
addSessionToHistory(s, session) ==
    saveHistoryToStorage(
        [s EXCEPT !.history.sessions = Append(@, session),
                  !.history.stats.totalSessions = @ + 1])

\* A write to the current session object: the current session and every
\* entry of the history that is the same object show it.
writeCurrentSession(s, written) ==
    [s EXCEPT !.currentSession = <<written>>,
              !.history.sessions =
                  [i \in 1..Len(@) |-> IF @[i].id = written.id THEN written ELSE @[i]]]

\* A stopSession that records the session twice.
stopSession_RecordsTwice(s) ==
    IF s.currentSession # <<>>
    THEN LET marked == [s.currentSession[1] EXCEPT !.interrupted = TRUE,
                                                   !.endTime = "stamped"]
         IN  resetTimer(addSessionToHistory(
                 addSessionToHistory(writeCurrentSession(s, marked), marked), marked))
    ELSE resetTimer(s)

\* stopSession (stores/timer.ts 54-61).
stopSession(s) ==
    IF s.currentSession # <<>>
    THEN LET marked == [s.currentSession[1] EXCEPT !.interrupted = TRUE,
                                                   !.endTime = "stamped"]
         IN  resetTimer(addSessionToHistory(writeCurrentSession(s, marked), marked))
    ELSE resetTimer(s)

\* The statistics of a finished work session (stores/timer.ts 69-73).
countWork(s, session) ==
    IF session.type = "work"
    THEN [s EXCEPT !.sessionsCompleted = @ + 1,
                   !.history.stats.completedSessions = @ + 1,
                   !.history.stats.totalWorkTime = @ + session.duration]
    ELSE s

\* A completeSession that counts breaks as well as work sessions.
completeSession_CountsEveryType(s) ==
    IF s.currentSession # <<>>
    THEN LET marked == [s.currentSession[1] EXCEPT !.completed = TRUE,
                                                   !.endTime = "stamped"]
             added  == addSessionToHistory(writeCurrentSession(s, marked), marked)
         IN  resetTimer([added EXCEPT
                            !.sessionsCompleted = @ + 1,
                            !.history.stats.completedSessions = @ + 1,
                            !.history.stats.totalWorkTime = @ + marked.duration])
    ELSE resetTimer(s)

\* completeSession (stores/timer.ts 63-76).
completeSession(s) ==
    IF s.currentSession # <<>>
    THEN LET marked == [s.currentSession[1] EXCEPT !.completed = TRUE,
                                                   !.endTime = "stamped"]
         IN  resetTimer(countWork(
                 addSessionToHistory(writeCurrentSession(s, marked), marked), marked))
    ELSE resetTimer(s)

\* clearHistory (stores/timer.ts 115-126).
clearHistory(s) == saveHistoryToStorage([s EXCEPT !.history = EmptyHistory])

(***************************************************************************)
(* The history store as a state machine: a caller constructs the store on  *)
(* a storage without a history item and calls its operations in any order. *)
(***************************************************************************)
\* The duration of the sessions the callers make, by type: the defaults.
SessionSeconds(type) ==
    CASE type = "work"       -> DefaultWorkSeconds
      [] type = "shortBreak" -> DefaultShortBreakSeconds
      [] type = "longBreak"  -> DefaultLongBreakSeconds

\* The ids of the session objects the store still refers to.
IdsInUse ==
    { history.sessions[i].id : i \in 1..Len(history.sessions) }
        \cup { timerState.currentSession[i].id : i \in 1..Len(timerState.currentSession) }

\* A session object the caller has just made, as the tests make it.
FreshSession(type, completed) ==
    [ id          |-> CHOOSE id \in 1..(Cardinality(IdsInUse) + 1) : id \notin IdsInUse,
      type        |-> type,
      duration    |-> SessionSeconds(type),
      endTime     |-> IF completed THEN "stamped" ELSE "",
      completed   |-> completed,
      interrupted |-> FALSE ]

\* The session objects a caller hands to startSession: a fresh one, or one
\* the history holds, started again.
StartableSessions ==
    { FreshSession(type, FALSE) : type \in SessionType }
        \cup { history.sessions[i] : i \in 1..Len(history.sessions) }

\* The store's variables take the values of record s.  The engine and the
\* settings, with the record of their last call, are other objects.
TimerStoreBecomes(s) ==
    /\ timerState' = [ currentSession     |-> s.currentSession,
                       isRunning          |-> s.isRunning,
                       isPaused           |-> s.isPaused,
                       remainingTime      |-> s.remainingTime,
                       currentSessionType |-> s.currentSessionType,
                       sessionsCompleted  |-> s.sessionsCompleted ]
    /\ history' = s.history
    /\ storedHistory' = s.storedHistory
    /\ UNCHANGED <<settings, storageError, stored, backend, io, candidate,
                    workDuration, shortBreakDuration, longBreakDuration,
                    currentMode, timeLeft, isRunning, sessionsCompleted,
                    intervalRef, currentSession, timerError, liveIntervals,
                    durationStale, mounted, lastOp, ret, returned>>

\* useTimerStore() on the server and on a storage that works; the settings
\* and the engine are constructed as well.
InitTimerStore ==
    /\ settings = DefaultPomodoroSettings
    /\ storageError = "null"
    /\ stored = JSONstringify(obj(settings))
    /\ backend \in {"working", "server"}
    /\ io = LoadTraffic
    /\ candidate = NoCandidate
    /\ TimerStoreConstructed
    /\ Constructed

\* The history has room for one more session.
Recordable == Len(history.sessions) < MaxHistory

StartSession ==
    \E session \in StartableSessions :
        TimerStoreBecomes(startSession(TimerStore, session))

PauseSession == TimerStoreBecomes(pauseSession(TimerStore))

ResumeSession == TimerStoreBecomes(resumeSession(TimerStore))

StopSession ==
    /\ timerState.currentSession # <<>> => Recordable
    /\ TimerStoreBecomes(stopSession(TimerStore))

CompleteSession ==
    /\ timerState.currentSession # <<>> =>
          Recordable /\ timerState.sessionsCompleted < MaxHistory
    /\ TimerStoreBecomes(completeSession(TimerStore))

ResetTimer == TimerStoreBecomes(resetTimer(TimerStore))

AddSessionToHistory ==
    /\ Recordable
    /\ \E session \in { FreshSession(type, TRUE) : type \in SessionType }
                         \cup { timerState.currentSession[i] :
                                   i \in 1..Len(timerState.currentSession) } :
          TimerStoreBecomes(addSessionToHistory(TimerStore, session))

LoadHistoryFromStorage ==
    TimerStoreBecomes(loadHistoryFromStorage(TimerStore))

SaveHistoryToStorage ==
    TimerStoreBecomes(saveHistoryToStorage(TimerStore))

ClearHistory == TimerStoreBecomes(clearHistory(TimerStore))

NextTimerStore ==
    \/ StartSession
    \/ PauseSession
    \/ ResumeSession
    \/ StopSession
    \/ CompleteSession
    \/ ResetTimer
    \/ AddSessionToHistory
    \/ LoadHistoryFromStorage
    \/ SaveHistoryToStorage
    \/ ClearHistory

SpecTimerStore == InitTimerStore /\ [][NextTimerStore]_vars

\* What resetTimer leaves behind: no current session, not running, not
\* paused, no time remaining.
TimerReset(ts) ==
    /\ ts.currentSession = <<>>
    /\ ~ts.isRunning
    /\ ~ts.isPaused
    /\ ts.remainingTime = 0

\* The history holds one session more, the last one being session, and
\* counts one session more.
Appended(session) ==
    /\ history'.sessions = Append(SubSeq(history'.sessions, 1, Len(history.sessions)), session)
    /\ Len(history'.sessions) = Len(history.sessions) + 1
    /\ history'.stats.totalSessions = history.stats.totalSessions + 1

\* C29: completeSession() with a current session marks it completed, appends
\* it to the history (totalSessions + 1) and, only when it is a work session,
\* adds one to sessionsCompleted and stats.completedSessions and its duration
\* to stats.totalWorkTime; afterwards the timer state is reset.  Without a
\* current session the history and the statistics are as they were.
C29_CompleteSession ==
    [][ CompleteSession =>
          IF timerState.currentSession # <<>>
          THEN LET session == timerState.currentSession[1]
                   counted == IF session.type = "work" THEN 1 ELSE 0
               IN  /\ Appended([session EXCEPT !.completed = TRUE, !.endTime = "stamped"])
                   /\ timerState'.sessionsCompleted =
                          timerState.sessionsCompleted + counted
                   /\ history'.stats.completedSessions =
                          history.stats.completedSessions + counted
                   /\ history'.stats.totalWorkTime =
                          history.stats.totalWorkTime + counted * session.duration
                   /\ TimerReset(timerState')
          ELSE /\ history' = history
               /\ timerState'.sessionsCompleted = timerState.sessionsCompleted
      ]_vars

\* A work session was completed and counted: only completeSession counts.
C29_Witness ==
    /\ Len(history.sessions) = 1
    /\ history.sessions[1].completed
    /\ history.sessions[1].type = "work"
    /\ timerState.sessionsCompleted = 1
    /\ history.stats.completedSessions = 1
    /\ history.stats.totalWorkTime = DefaultWorkSeconds
    /\ TimerReset(timerState)

\* C30: stopSession() with a current session marks it interrupted and leaves
\* its completed flag alone, appends it to the history exactly once
\* (totalSessions + 1) without a change of sessionsCompleted,
\* stats.completedSessions or stats.totalWorkTime, and resets the timer state.
C30_StopSession ==
    [][ StopSession /\ timerState.currentSession # <<>> =>
          LET session == timerState.currentSession[1]
          IN  /\ Appended([session EXCEPT !.interrupted = TRUE, !.endTime = "stamped"])
              /\ timerState'.sessionsCompleted = timerState.sessionsCompleted
              /\ history'.stats.completedSessions = history.stats.completedSessions
              /\ history'.stats.totalWorkTime = history.stats.totalWorkTime
              /\ TimerReset(timerState')
      ]_vars

\* A session that was not completed was stopped: only stopSession marks a
\* session interrupted.
C30_Witness ==
    /\ Len(history.sessions) = 1
    /\ history.sessions[1].interrupted
    /\ ~history.sessions[1].completed
    /\ history.stats.totalSessions = 1
    /\ history.stats.completedSessions = 0
    /\ TimerReset(timerState)

(***************************************************************************)
(* The countdown of the running engine.                                    *)
(***************************************************************************)
\* C31: a tick fires only while the engine runs; it takes exactly one second
\* off timeLeft, and the tick that reaches zero completes the countdown in
\* the same step (stopped, no tick left, the next mode at its full duration);
\* progress does not decrease by a tick short of completion; timeLeft changes
\* only by a tick (completion included), reset() or switchMode().
C31_Countdown ==
    [][ /\ lastOp' = "tick" =>
              /\ isRunning
              /\ IF timeLeft - 1 <= 0
                 THEN /\ ~isRunning' /\ intervalRef' = NoHandle /\ liveIntervals' = {}
                      /\ currentMode' # currentMode
                      /\ timeLeft' = getDuration(currentMode')
                 ELSE /\ timeLeft' = timeLeft - 1
                      /\ isRunning' /\ UNCHANGED <<currentMode, intervalRef, liveIntervals>>
                      /\ progress'.denominator = progress.denominator
                      /\ progress'.numerator >= progress.numerator
        /\ timeLeft' # timeLeft => lastOp' \in {"tick", "reset", "switchMode"} ]_vars

\* C31 witness: a tick short of completion, the second of a short break that
\* follows a completed work countdown.
C31_Witness ==
    /\ lastOp = "tick" /\ isRunning /\ TickScheduled
    /\ currentMode = "shortBreak" /\ sessionsCompleted = 1
    /\ timeLeft = getDuration("shortBreak") - 2

\* C32: once pause(), reset(), switchMode() or the unmount hook has returned,
\* no interval is scheduled; an interval is scheduled only by a start() that
\* returns true, and the callback fires only from the one scheduled interval:
\* so no tick changes timeLeft, currentMode or sessionsCompleted between a
\* cancellation and the next successful start().
C32_NoTickAfterCancel ==
    [][ /\ lastOp' \in {"pause", "reset", "switchMode", "unmount"} => liveIntervals' = {}
        /\ liveIntervals' \ liveIntervals # {} => (lastOp' = "start" /\ ret' = "true")
        /\ lastOp' = "tick" => liveIntervals = {intervalRef}
        /\ (liveIntervals = {} /\ lastOp' \notin {"start", "reset", "switchMode"}) =>
              UNCHANGED <<timeLeft, currentMode, sessionsCompleted>> ]_vars

\* C32 witness: switchMode() has cancelled a countdown under way (its session
\* is marked interrupted) and no interval is left.
C32_Witness ==
    /\ lastOp = "switchMode" /\ ~isRunning /\ liveIntervals = {} /\ intervalRef = NoHandle
    /\ currentSession # <<>> /\ currentSession[1].interrupted
    /\ currentSession[1].type # currentMode

\* C33: whenever the engine is running, the current session is one of the
\* current mode, with the current duration.
C33_SessionOfOwnMode ==
    isRunning =>
        /\ currentSession # <<>>
        /\ currentSession[1].type = currentMode
        /\ currentSession[1].duration = getDuration(currentMode)

\* C36: whenever the engine is running, a current session exists.
C36_RunningHasSession ==
    isRunning => currentSession # <<>>

\* C37: sessionsCompleted never decreases; it changes only in the tick that
\* completes a work countdown, and then by exactly one.  start(), pause(),
\* reset(), switchMode(), clearTimerError(), the completion of a break and
\* the unmount hook leave it as it was.
C37_CounterOnlyByWorkCompletion ==
    [][ /\ sessionsCompleted' >= sessionsCompleted
        /\ (Completes /\ currentMode = "work") => sessionsCompleted' = sessionsCompleted + 1
        /\ ~(Completes /\ currentMode = "work") => UNCHANGED sessionsCompleted ]_vars

\* C37 witness: three work countdowns were completed, and a reset() in the
\* work mode that followed has left the count at three.
C37_Witness ==
    /\ lastOp = "reset" /\ sessionsCompleted = 3 /\ currentMode = "work"
    /\ timeLeft = getDuration("work") /\ ~isRunning

\* C40: in every state of the history store, stats.totalSessions is the
\* number of sessions in the history, stats.completedSessions is at most
\* stats.totalSessions, and isRunning and isPaused are not both true.
C40_Bookkeeping ==
    /\ history.stats.totalSessions = Len(history.sessions)
    /\ history.stats.completedSessions <= history.stats.totalSessions
    /\ ~(timerState.isRunning /\ timerState.isPaused)

\* C40 witness: a session was completed and recorded, and the session started
\* after it is paused.
C40_Witness ==
    /\ Len(history.sessions) = 1
    /\ history.stats.totalSessions = 1
    /\ history.stats.completedSessions = 1
    /\ timerState.currentSession # <<>>
    /\ timerState.isPaused /\ ~timerState.isRunning

\* C35: the storage calls of one operation are bounded.  A load (that of the
\* construction included) reads the item at most once; a load, save, update
\* or reset writes the item at most once; every availability check makes at
\* most one probe write and at most one probe delete, a load making at most
\* two checks (its own and that of the save that repairs) and a save, update
\* or reset at most one; an update that fails validation makes no storage
\* call at all.
C35_BoundedTraffic ==
    /\ [](/\ io.reads <= 1
          /\ io.writes <= 1
          /\ io.probeDeletes <= io.probeWrites
          /\ io.probeWrites <= IF lastOp \in {"init", "loadSettings"} THEN 1 + io.writes ELSE 1
          /\ lastOp \in {"saveSettings", "updateSettings", "resetSettings"} => io.reads = 0)
    /\ [][ \A newSettings \in PartialChoices :
             (UpdateSettingsWith(newSettings) /\ MergeInvalid(newSettings)) =>
                 io' = NoTraffic ]_vars

\* C35 witness: a load that repaired the stored item made two availability
\* checks, one read and one write.
C35_Witness ==
    /\ lastOp = "loadSettings"
    /\ io = [probeWrites |-> 2, probeDeletes |-> 2, reads |-> 1, writes |-> 1]
    /\ storageError = "null"

(***************************************************************************)
(* The timer component (PomodoroTimer.vue 63-81): the settings store is    *)
(* constructed, the engine is constructed from the three durations the     *)
(* store holds at that moment, and then the user drives the countdown      *)
(* while the settings are updated and reset.                               *)
(***************************************************************************)
\* A tick of the component's engine, up to the last countdown followed.
ComponentTick ==
    /\ sessionsCompleted < MaxCountdowns
    /\ Tick

NextComponent ==
    \/ ScenarioStart
    \/ ComponentTick
    \/ Pause
    \/ UpdateSettings
    \/ ResetSettings

SpecComponent == Init /\ [][NextComponent]_vars

\* C34: an updateSettings() or resetSettings() after the engine was
\* constructed leaves the duration the engine uses for every mode, its
\* timeLeft, its running state (flag and interval), its mode and its current
\* session as they were.
C34_DurationsAreSnapshot ==
    [][ (UpdateSettings \/ ResetSettings) =>
          /\ \A mode \in SessionType : getDuration(mode)' = getDuration(mode)
          /\ UNCHANGED <<workDuration, shortBreakDuration, longBreakDuration>>
          /\ UNCHANGED <<timeLeft, isRunning, intervalRef, liveIntervals,
                         currentMode, currentSession>> ]_vars

\* C34 witness: the settings were updated during a countdown; the work
\* duration of the settings is no longer the one the engine counts with.
C34_Witness ==
    /\ lastOp = "updateSettings" /\ ret = "true"
    /\ settings.workDuration # workDuration
    /\ isRunning /\ TickScheduled /\ currentSession # <<>>
    /\ 0 < timeLeft /\ timeLeft < getDuration(currentMode)

(***************************************************************************)
(* The countdown left alone: the user starts the engine whenever they like *)
(* and never pauses, resets, switches the mode or unmounts; the host fires *)
(* the callback of a scheduled interval again and again (setInterval).     *)
(***************************************************************************)
NextCountdown ==
    \/ Start
    \/ Tick

SpecCountdown == Init /\ [][NextCountdown]_vars /\ WF_vars(Tick)

\* C38: a running engine that is left alone eventually completes its
\* countdown: it stops, no tick is left, the mode is the next one, a finished
\* work countdown is counted, and timeLeft is the full duration of the new
\* mode.
C38_CountdownCompletes ==
    \A mode \in SessionType, n \in 0..(MaxSessions - 1) :
        (isRunning /\ currentMode = mode /\ sessionsCompleted = n)
            ~> (/\ ~isRunning /\ intervalRef = NoHandle /\ liveIntervals = {}
                /\ currentMode # mode
                /\ sessionsCompleted = n + (IF mode = "work" THEN 1 ELSE 0)
                /\ timeLeft = getDuration(currentMode))

(***************************************************************************)
(* The engine constructed from whatever configuration the schema accepts   *)
(* (PomodoroTimer.vue 63-81), and its duration looked up through the       *)
(* public interface.  The countdown itself is the subject of Spec.         *)
(***************************************************************************)
\* Durations offered to the schema, in minutes: the defaults, the ends of
\* the schema's ranges, values beyond them, and numbers that are not whole
\* (1.01, 1.5, 25.25).
ConfigurationChoices ==
    { spread(DefaultPomodoroSettings,
             [workDuration |-> d[1], shortBreakDuration |-> d[2], longBreakDuration |-> d[3]]) :
        d \in { <<num(25), num(5), num(15)>>,
                <<num(1), num(1), num(1)>>,
                <<num(120), num(60), num(120)>>,
                <<num(121), num(5), num(15)>>,
                <<num(25), num(0), num(15)>>,
                <<fraction(1, 1), num(5), num(15)>>,
                <<num(25), fraction(1, 50), num(15)>>,
                <<num(25), num(5), fraction(25, 25)>>,
                <<num(25), fraction(59, 99), fraction(1, 1)>> } }

InitAccepted ==
    /\ settings \in { c \in ConfigurationChoices : isValidPomodoroSettings(obj(c)) }
    /\ StoreLoaded
    /\ candidate = NoCandidate
    /\ TimerStoreConstructed
    /\ Constructed

NextAccepted ==
    \/ Render
    \/ SwitchMode
    \/ Reset
    \/ CreateSession
    \/ Start
    \/ Pause
    \/ ClearTimerError

SpecAccepted == InitAccepted /\ [][NextAccepted]_vars

\* C39: for an engine constructed from a configuration the schema accepts, no
\* duration lookup records invalid_duration, and the duration of every mode
\* is the configured minutes times 60, never the fallback default.
C39_AcceptedDurationsAreUsed ==
    /\ timerError # "invalid_duration"
    /\ \A mode \in SessionType : validateDuration(configuredSeconds(mode))

====
